---- MODULE Spec2Model ----
(***************************************************************************)
(* Headline parser of orgize (src/syntax/headline.rs, combinator.rs) and   *)
(* the headline accessors of the AST overlay (src/ast/headline.rs).        *)
(*                                                                         *)
(* A source text is a sequence of characters, each character a one-element *)
(* string.  A character outside ASCII is one symbol ("U+7834"): all of its *)
(* bytes are >= 0x80, so no byte test of the parser (star, colon, space,   *)
(* ASCII alphanumeric) accepts any of them, and slicing happens only at    *)
(* ASCII positions, so byte offsets and character offsets denote the same  *)
(* cuts.                                                                   *)
(***************************************************************************)
EXTENDS Naturals, Integers, Sequences, FiniteSets, TLC

VARIABLES
    input,      \* the text handed to the parser under test
    debug,      \* cfg(debug_assertions): debug_assert! is compiled in
    stack,      \* call stack of headline_node_base activations
    calls,      \* arguments of the NodeBuilder::ws / ::nl calls made so far
    result      \* outcome of the outermost call

vars == <<input, debug, stack, calls, result>>

----------------------------------------------------------------------------
(* Bounds *)

MaxPieces == 3
MaxNestLen == 5
MaxStarsLen == 4
MaxTagsLen == 5

----------------------------------------------------------------------------
(* Characters *)

\* u8::is_ascii_whitespace / char::is_ascii_whitespace
AsciiWhitespace == {" ", "\t", "\n", "\f", "\r"}

\* nom space0: spaces and tabs
SpaceTab == {" ", "\t"}

\* char::is_whitespace (White_Space property): the ASCII ones, VT, NBSP, ...
UnicodeWhitespace == AsciiWhitespace \cup {"U+000B", "U+00A0"}

\* u8::is_ascii_alphanumeric
AsciiAlphanumeric ==
    {"0", "1", "2", "3", "4", "5", "6", "7", "8", "9",
     "a", "b", "c", "d", "e", "f", "g", "h", "i", "j", "k", "l", "m",
     "n", "o", "p", "q", "r", "s", "t", "u", "v", "w", "x", "y", "z",
     "A", "B", "C", "D", "E", "F", "G", "H", "I", "J", "K", "L", "M",
     "N", "O", "P", "Q", "R", "S", "T", "U", "V", "W", "X", "Y", "Z"}

TagChar_graphic ==
    AsciiAlphanumeric \cup {"_", "@", "#", "%", "(", ")", "-", "+", "U+7834"}

\* the tag alphabet of headline_tags_node
TagChar == AsciiAlphanumeric \cup {"_", "@", "#", "%"}

----------------------------------------------------------------------------
(* Slices *)

\* Iterator::take_while(..).count() over the characters of s
TakeWhileIn(s, C) ==
    CHOOSE n \in 0..Len(s) :
        /\ \A k \in 1..n : s[k] \in C
        /\ (n < Len(s) => s[n + 1] \notin C)

TakeWhileNotIn(s, C) ==
    CHOOSE n \in 0..Len(s) :
        /\ \A k \in 1..n : s[k] \notin C
        /\ (n < Len(s) => s[n + 1] \in C)

\* Input::take_split(n): (suffix, prefix)
take_split(s, n) ==
    [rest |-> SubSeq(s, n + 1, Len(s)), out |-> SubSeq(s, 1, n)]

\* input.slice(a..b) with 0-based byte offsets a <= b
slice(s, a, b) == SubSeq(s, a + 1, b)

\* the elements of a finite set of offsets in increasing / decreasing order
RECURSIVE Ascending(_)
Ascending(Q) ==
    IF Q = {} THEN <<>>
    ELSE LET m == CHOOSE x \in Q : \A y \in Q : x <= y
         IN  <<m>> \o Ascending(Q \ {m})

RECURSIVE Descending(_)
Descending(Q) ==
    IF Q = {} THEN <<>>
    ELSE LET m == CHOOSE x \in Q : \A y \in Q : y <= x
         IN  <<m>> \o Descending(Q \ {m})

RECURSIVE Flatten(_)
Flatten(ss) == IF ss = <<>> THEN <<>> ELSE Head(ss) \o Flatten(Tail(ss))

StartsWith(s, p) == Len(s) >= Len(p) /\ SubSeq(s, 1, Len(p)) = p

----------------------------------------------------------------------------
(* Green tree *)

token(kind, text) ==
    [leaf |-> TRUE, kind |-> kind, text |-> text, children |-> <<>>]

node(kind, children) ==
    [leaf |-> FALSE, kind |-> kind, text |-> <<>>, children |-> children]

\* GreenElement::to_string: the token texts in left-to-right order
RECURSIVE to_string(_)
to_string(e) ==
    IF e.leaf THEN e.text
    ELSE Flatten([k \in 1..Len(e.children) |-> to_string(e.children[k])])

Err == [ok |-> FALSE]
Ok(rest, out) == [ok |-> TRUE, rest |-> rest, out |-> out]

----------------------------------------------------------------------------
(* Token-level parsers *)

space0(s) == take_split(s, TakeWhileIn(s, SpaceTab))

tag(t, kind, s) ==
    IF StartsWith(s, t) THEN Ok(SubSeq(s, Len(t) + 1, Len(s)), token(kind, t))
    ELSE Err

l_bracket_token(s) == tag(<<"[">>, "L_BRACKET", s)
r_bracket_token(s) == tag(<<"]">>, "R_BRACKET", s)
hash_token(s) == tag(<<"#">>, "HASH", s)

\* nom anychar: any one character
anychar(s) == IF s = <<>> THEN Err ELSE Ok(Tail(s), Head(s))

headline_stars_any(s) ==
    Ok(take_split(s, TakeWhileIn(s, {"*"})).rest, take_split(s, TakeWhileIn(s, {"*"})).out)

headline_stars_tab(s) ==
    LET level == TakeWhileIn(s, {"*"}) IN
    IF level = 0 THEN Err
    ELSE IF Len(s) = level \/ s[level + 1] \in AsciiWhitespace
        THEN Ok(take_split(s, level).rest, take_split(s, level).out)
    ELSE Err

headline_stars(s) ==
    LET level == TakeWhileIn(s, {"*"}) IN
    IF level = 0 THEN Err
    ELSE IF Len(s) = level
        THEN Ok(take_split(s, level).rest, take_split(s, level).out)
    ELSE IF s[level + 1] = "\n" \/ s[level + 1] = "\r" \/ s[level + 1] = " "
        THEN Ok(take_split(s, level).rest, take_split(s, level).out)
    ELSE Err


\* nom opt: a recoverable error becomes None and consumes nothing
opt(r, s) ==
    IF r.ok THEN [rest |-> r.rest, some |-> TRUE, out |-> r.out]
    ELSE [rest |-> s, some |-> FALSE, out |-> <<>>]

\* ParseConfig::default().todo_keywords
todo_keywords == <<{<<"T", "O", "D", "O">>}, {<<"D", "O", "N", "E">>}>>

headline_keyword_token_prefix(s) ==
    LET ks == todo_keywords[1] \cup todo_keywords[2] IN
    IF \E k \in ks : StartsWith(s, k)
    THEN LET word == take_split(s, Len(CHOOSE k \in ks : StartsWith(s, k)))
             sp == space0(word.rest)
         IN  Ok(sp.rest, <<token("HEADLINE_KEYWORD", word.out), sp.out>>)
    ELSE Err

headline_keyword_token(s) ==
    LET n == TakeWhileNotIn(s, AsciiWhitespace)
        word == take_split(s, n)
        sp == space0(word.rest)
    IN  IF n >= 1 /\ (word.out \in todo_keywords[1] \/ word.out \in todo_keywords[2])
        THEN Ok(sp.rest, <<token("HEADLINE_KEYWORD", word.out), sp.out>>)
        ELSE Err

headline_priority_node_nohash(s) ==
    LET l == l_bracket_token(s)
        c == IF l.ok THEN anychar(l.rest) ELSE Err
        r == IF c.ok THEN r_bracket_token(c.rest) ELSE Err
    IN  IF r.ok
        THEN LET sp == space0(r.rest)
             IN  Ok(sp.rest,
                    <<node("HEADLINE_PRIORITY",
                           <<l.out, token("TEXT", <<c.out>>), r.out>>),
                      sp.out>>)
        ELSE Err

headline_priority_node(s) ==
    LET l == l_bracket_token(s)
        h == IF l.ok THEN hash_token(l.rest) ELSE Err
        c == IF h.ok THEN anychar(h.rest) ELSE Err
        r == IF c.ok THEN r_bracket_token(c.rest) ELSE Err
    IN  IF r.ok
        THEN LET sp == space0(r.rest)
             IN  Ok(sp.rest,
                    <<node("HEADLINE_PRIORITY",
                           <<l.out, h.out, token("TEXT", <<c.out>>), r.out>>),
                      sp.out>>)
        ELSE Err

\* memchr(b'\n', bytes): 0-based offset of the first line feed, or -1
memchr(c, s) ==
    IF \E k \in 1..Len(s) : s[k] = c
    THEN (CHOOSE k \in 1..Len(s) : s[k] = c /\ \A j \in 1..(k - 1) : s[j] # c) - 1
    ELSE -1

rposition_end_blank(s) ==
    IF \E k \in 1..Len(s) : s[k] \notin {" ", "\t", "\n", "\r"}
    THEN CHOOSE k \in 1..Len(s) :
            /\ s[k] \notin {" ", "\t", "\n", "\r"}
            /\ \A j \in (k + 1)..Len(s) : s[j] \in {" ", "\t", "\n", "\r"}
    ELSE 0

\* rposition(|u| !u.is_ascii_whitespace()).map(|i| i + 1).unwrap_or(0)
rposition_end(s) ==
    IF \E k \in 1..Len(s) : s[k] \notin AsciiWhitespace
    THEN CHOOSE k \in 1..Len(s) :
            /\ s[k] \notin AsciiWhitespace
            /\ \A j \in (k + 1)..Len(s) : s[j] \in AsciiWhitespace
    ELSE 0

trim_line_end_before_lf(s) ==
    LET m == memchr("\n", s)
        l == take_split(s, IF m >= 0 THEN m ELSE Len(s))
        c == take_split(l.out, rposition_end(l.out))
        w == space0(c.rest)
    IN  [rest |-> l.rest, contents |-> c.out, ws |-> w.out, nl |-> w.rest]

trim_line_end(s) ==
    LET m == memchr("\n", s)
        l == take_split(s, IF m >= 0 THEN m + 1 ELSE Len(s))
        c == take_split(l.out, rposition_end(l.out))
        w == space0(c.rest)
    IN  [rest |-> l.rest, contents |-> c.out, ws |-> w.out, nl |-> w.rest]

----------------------------------------------------------------------------
(* Tags *)

Reverse_none(q) == q

Reverse(q) == [k \in 1..Len(q) |-> q[Len(q) + 1 - k]]

\* memrchr_iter(b':', bytes): 0-based offsets of the colons, last one first
memrchr_iter(c, s) == Descending({k \in 0..(Len(s) - 1) : s[k + 1] = c})

RECURSIVE tags_loop_any_ws(_, _, _)
tags_loop_any_ws(s, cs, st) ==
    IF cs = <<>> THEN st
    ELSE
        LET ii == Head(cs)
            item == slice(s, ii + 1, st.i)
        IN  IF item = <<>>
            THEN tags_loop_any_ws(s, Tail(cs),
                    [i |-> ii, can_not_be_ws |-> FALSE,
                     children |-> Append(st.children, token("COLON", <<":">>))])
            ELSE IF \A k \in 1..Len(item) : item[k] \in TagChar
            THEN tags_loop_any_ws(s, Tail(cs),
                    [i |-> ii, can_not_be_ws |-> FALSE,
                     children |-> st.children
                        \o <<token("TEXT", item), token("COLON", <<":">>)>>])
            ELSE IF \A k \in 1..Len(item) : item[k] \in SpaceTab
            THEN tags_loop_any_ws(s, Tail(cs),
                    [i |-> ii, can_not_be_ws |-> TRUE,
                     children |-> st.children
                        \o <<token("WHITESPACE", item), token("COLON", <<":">>)>>])
            ELSE st

\* the body of the for loop of headline_tags_node, from the state st,
\* over the colon offsets cs still to visit
RECURSIVE tags_loop(_, _, _)
tags_loop(s, cs, st) ==
    IF cs = <<>> THEN st
    ELSE
        LET ii == Head(cs)
            item == slice(s, ii + 1, st.i)
        IN  IF item = <<>>
            THEN tags_loop(s, Tail(cs),
                    [i |-> ii, can_not_be_ws |-> FALSE,
                     children |-> Append(st.children, token("COLON", <<":">>))])
            ELSE IF \A k \in 1..Len(item) : item[k] \in TagChar
            THEN tags_loop(s, Tail(cs),
                    [i |-> ii, can_not_be_ws |-> FALSE,
                     children |-> st.children
                        \o <<token("TEXT", item), token("COLON", <<":">>)>>])
            ELSE IF (\A k \in 1..Len(item) : item[k] \in SpaceTab)
                    /\ ~st.can_not_be_ws
            THEN tags_loop(s, Tail(cs),
                    [i |-> ii, can_not_be_ws |-> TRUE,
                     children |-> st.children
                        \o <<token("WHITESPACE", item), token("COLON", <<":">>)>>])
            ELSE st

headline_tags_node_unchecked(s) ==
    IF s = <<>> \/ s[Len(s)] # ":" THEN Err
    ELSE
        LET st == tags_loop(s, Tail(memrchr_iter(":", s)),
                    [i |-> Len(s) - 1, can_not_be_ws |-> TRUE,
                     children |-> <<token("COLON", <<":">>)>>])
        IN  IF st.i # 0 /\ s[st.i] # " " /\ s[st.i] # "\t" THEN Err
            ELSE Ok(slice(s, 0, st.i), node("HEADLINE_TAGS", Reverse(st.children)))

headline_tags_node(s) ==
    IF s = <<>> \/ s[Len(s)] # ":" THEN Err
    ELSE
        LET st == tags_loop(s, Tail(memrchr_iter(":", s)),
                    [i |-> Len(s) - 1, can_not_be_ws |-> TRUE,
                     children |-> <<token("COLON", <<":">>)>>])
        IN  IF Len(st.children) = 1 THEN Err
            ELSE IF st.i # 0 /\ s[st.i] # " " /\ s[st.i] # "\t" THEN Err
            ELSE Ok(slice(s, 0, st.i), node("HEADLINE_TAGS", Reverse(st.children)))

----------------------------------------------------------------------------
(* Lines *)

line_end_candidates_noeof(s) ==
    Ascending({k \in 1..Len(s) : s[k] = "\r" \/ s[k] = "\n"})

\* memchr2_iter(b'\r', b'\n', bytes).map(|i| i + 1).chain(once(bytes.len()))
line_end_candidates(s) ==
    Ascending({k \in 1..Len(s) : s[k] = "\r" \/ s[k] = "\n"}) \o <<Len(s)>>

RECURSIVE blank_lines_loop_split(_, _, _)
blank_lines_loop_split(s, idxs, st) ==
    IF idxs = <<>> THEN st
    ELSE
        LET index == Head(idxs) IN
        IF st.start # index
           /\ \A k \in (st.start + 1)..index : s[k] \in AsciiWhitespace
        THEN blank_lines_loop_split(s, Tail(idxs),
                [start |-> index,
                 lines |-> Append(st.lines,
                              token("BLANK_LINE", slice(s, st.start, index)))])
        ELSE st

\* the for loop of blank_lines over the candidate offsets idxs
RECURSIVE blank_lines_loop(_, _, _)
blank_lines_loop(s, idxs, st) ==
    IF idxs = <<>> THEN st
    ELSE
        LET index == Head(idxs) IN
        IF index >= 1 /\ s[index] = "\r" /\ index < Len(s) /\ s[index + 1] = "\n"
        THEN blank_lines_loop(s, Tail(idxs), st)
        ELSE IF st.start # index
                /\ \A k \in (st.start + 1)..index : s[k] \in AsciiWhitespace
        THEN blank_lines_loop(s, Tail(idxs),
                [start |-> index,
                 lines |-> Append(st.lines,
                              token("BLANK_LINE", slice(s, st.start, index)))])
        ELSE st

blank_lines(s) ==
    IF s = <<>> THEN Ok(s, <<>>)
    ELSE LET st == blank_lines_loop(s, line_end_candidates(s),
                                    [start |-> 0, lines |-> <<>>])
         IN  Ok(take_split(s, st.start).rest, st.lines)

line_starts_iter_nozero(s) == Ascending({k \in 1..Len(s) : s[k] = "\n"})

\* once(0).chain(memchr_iter(b'\n', ..).map(|i| i + 1)), in increasing order
line_starts_iter(s) == <<0>> \o Ascending({k \in 1..Len(s) : s[k] = "\n"})

RECURSIVE section_text_loop(_, _)
section_text_loop(s, starts) ==
    IF starts = <<>> THEN Ok(take_split(s, Len(s)).rest, take_split(s, Len(s)).out)
    ELSE
        LET sp == take_split(s, Head(starts)) IN
        IF headline_stars(sp.rest).ok
        THEN IF sp.out = <<>> THEN Err ELSE Ok(sp.rest, sp.out)
        ELSE section_text_loop(s, Tail(starts))

section_text(s) ==
    IF s = <<>> THEN Err ELSE section_text_loop(s, line_starts_iter(s))

----------------------------------------------------------------------------
(* Parsers of the other syntax modules (object, timestamp, planning,       *)
(* drawer, element), reduced to the constructs the headline parser meets   *)

Digit == {"0", "1", "2", "3", "4", "5", "6", "7", "8", "9"}

\* target  <<...>>
target_node(s) ==
    IF ~StartsWith(s, <<"<", "<">>) THEN Err
    ELSE
        LET body == SubSeq(s, 3, Len(s))
            n == TakeWhileNotIn(body, {"<", ">", "\n"})
            close == SubSeq(body, n + 1, Len(body))
        IN  IF n >= 1 /\ StartsWith(close, <<">", ">">>)
            THEN Ok(SubSeq(close, 3, Len(close)),
                    node("TARGET", <<token("L_ANGLE2", <<"<", "<">>),
                                     token("TEXT", SubSeq(body, 1, n)),
                                     token("R_ANGLE2", <<">", ">">>)>>))
            ELSE Err

\* left-to-right scan: a recognised object, else text up to the next object
RECURSIVE object_scan(_, _)
object_scan(s, text) ==
    LET flush == IF text = <<>> THEN <<>> ELSE <<token("TEXT", text)>> IN
    IF s = <<>> THEN flush
    ELSE LET t == target_node(s) IN
         IF t.ok THEN flush \o <<t.out>> \o object_scan(t.rest, <<>>)
         ELSE object_scan(Tail(s), Append(text, Head(s)))

object_nodes(s) == object_scan(s, <<>>)

\* exactly n digits as one token of the kind
timestamp_digits(s, n, kind) ==
    IF Len(s) >= n /\ \A k \in 1..n : s[k] \in Digit
    THEN Ok(SubSeq(s, n + 1, Len(s)), <<token(kind, SubSeq(s, 1, n))>>)
    ELSE Err

timestamp_punct(s, t, kind) ==
    IF StartsWith(s, t) THEN Ok(SubSeq(s, Len(t) + 1, Len(s)), <<token(kind, t)>>)
    ELSE Err

\* WS: one or more spaces or tabs
timestamp_ws(s) ==
    LET sp == space0(s) IN
    IF sp.out = <<>> THEN Err ELSE Ok(sp.rest, <<token("WHITESPACE", sp.out)>>)

\* DAYNAME: a run of characters that are no whitespace, digit, sign or closer
timestamp_dayname(s) ==
    LET n == TakeWhileNotIn(s, AsciiWhitespace \cup Digit \cup {"+", "-", "]", ">", "."})
    IN  IF n = 0 THEN Err
        ELSE Ok(SubSeq(s, n + 1, Len(s)), <<token("TIMESTAMP_DAYNAME", SubSeq(s, 1, n))>>)

\* DIGITS UNIT after a mark
timestamp_value_unit(s) ==
    LET n == TakeWhileIn(s, Digit) IN
    IF n >= 1 /\ Len(s) > n /\ s[n + 1] \in {"h", "d", "w", "m", "y"}
    THEN Ok(SubSeq(s, n + 2, Len(s)),
            <<token("TIMESTAMP_VALUE", SubSeq(s, 1, n)),
              token("TIMESTAMP_UNIT", <<s[n + 1]>>)>>)
    ELSE Err

\* the mark of REPEATER := ('+' | '++' | '.+') DIGITS UNIT
timestamp_repeater_mark(s) ==
    timestamp_punct(s,
                    IF StartsWith(s, <<"+", "+">>) THEN <<"+", "+">>
                    ELSE IF StartsWith(s, <<".", "+">>) THEN <<".", "+">>
                    ELSE <<"+">>,
                    "TIMESTAMP_REPEATER_MARK")

\* the mark of WARNING := ('-' | '--') DIGITS UNIT
timestamp_delay_mark(s) ==
    timestamp_punct(s,
                    IF StartsWith(s, <<"-", "-">>) THEN <<"-", "-">> ELSE <<"-">>,
                    "TIMESTAMP_DELAY_MARK")

\* the grammar as items: a terminal, or an optional group of items
digits_item(n, kind) == [p |-> "digits", n |-> n, kind |-> kind]
punct_item(t, kind) == [p |-> "punct", t |-> t, kind |-> kind]
opt_item(items) == [p |-> "opt", items |-> items]

\* DATE := YYYY-MM-DD [DAYNAME]
timestamp_date ==
    <<digits_item(4, "TIMESTAMP_YEAR"), punct_item(<<"-">>, "MINUS"),
      digits_item(2, "TIMESTAMP_MONTH"), punct_item(<<"-">>, "MINUS"),
      digits_item(2, "TIMESTAMP_DAY"),
      opt_item(<<[p |-> "ws"], [p |-> "dayname"]>>)>>

\* TIME := HH:MM
timestamp_time ==
    <<digits_item(2, "TIMESTAMP_HOUR"), punct_item(<<":">>, "COLON"),
      digits_item(2, "TIMESTAMP_MINUTE")>>

\* BODY := DATE [ WS (TIME | TIME-RANGE) ] [ WS REPEATER ] [ WS WARNING ]
timestamp_body ==
    timestamp_date
    \o <<opt_item(<<[p |-> "ws"]>> \o timestamp_time
                  \o <<opt_item(<<punct_item(<<"-">>, "MINUS")>> \o timestamp_time)>>),
         opt_item(<<[p |-> "ws"], [p |-> "repeater_mark"], [p |-> "value_unit"]>>),
         opt_item(<<[p |-> "ws"], [p |-> "delay_mark"], [p |-> "value_unit"]>>)>>

\* one delimited body: <BODY> when active, [BODY] otherwise
timestamp_delimited(active) ==
    <<IF active THEN punct_item(<<"<">>, "L_ANGLE") ELSE punct_item(<<"[">>, "L_BRACKET")>>
    \o timestamp_body
    \o <<IF active THEN punct_item(<<">">>, "R_ANGLE") ELSE punct_item(<<"]">>, "R_BRACKET")>>

RECURSIVE timestamp_items(_, _)

\* an optional group: nothing consumed when the group g did not parse
timestamp_optional(s, g) == IF g.ok THEN g ELSE Ok(s, <<>>)

\* one item on s
timestamp_item(s, it) ==
    IF it.p = "digits" THEN timestamp_digits(s, it.n, it.kind)
    ELSE IF it.p = "punct" THEN timestamp_punct(s, it.t, it.kind)
    ELSE IF it.p = "ws" THEN timestamp_ws(s)
    ELSE IF it.p = "dayname" THEN timestamp_dayname(s)
    ELSE IF it.p = "value_unit" THEN timestamp_value_unit(s)
    ELSE IF it.p = "repeater_mark" THEN timestamp_repeater_mark(s)
    ELSE IF it.p = "delay_mark" THEN timestamp_delay_mark(s)
    ELSE timestamp_optional(s, timestamp_items(s, it.items))

\* the tokens of r followed by those of more, an error when more failed
timestamp_join(r, more) ==
    IF more.ok THEN Ok(more.rest, r.out \o more.out) ELSE Err

\* the items after the result r of the item before them
timestamp_then(r, items) ==
    IF ~r.ok THEN Err ELSE timestamp_join(r, timestamp_items(r.rest, items))

\* the items in sequence on s: the tokens of all of them, or an error
timestamp_items(s, items) ==
    IF items = <<>> THEN Ok(s, <<>>)
    ELSE timestamp_then(timestamp_item(s, Head(items)), Tail(items))

\* the node of the kind around the tokens of r
timestamp_finish(kind, r) ==
    IF r.ok THEN Ok(r.rest, node(kind, r.out)) ELSE Err

\* RANGE := BODY '--' BODY after a first delimited body
timestamp_range(active) ==
    timestamp_delimited(active)
    \o <<opt_item(<<punct_item(<<"-">>, "MINUS"), punct_item(<<"-">>, "MINUS")>>
                  \o timestamp_delimited(active))>>

\* timestamp: one delimited body or a range, in one node whose kind follows
\* the first delimiter
timestamp_node(s) ==
    timestamp_finish(IF StartsWith(s, <<"<">>) THEN "TIMESTAMP_ACTIVE"
                     ELSE "TIMESTAMP_INACTIVE",
                     timestamp_items(s, timestamp_range(StartsWith(s, <<"<">>))))

PlanningKeywords ==
    {<<"C", "L", "O", "S", "E", "D">>,
     <<"D", "E", "A", "D", "L", "I", "N", "E">>,
     <<"S", "C", "H", "E", "D", "U", "L", "E", "D">>}

\* the keyword that s starts with
planning_keyword(s) ==
    CHOOSE w \in PlanningKeywords : StartsWith(s, w \o <<":">>)

\* the node of the group: keyword kw, whitespace sp, timestamp ts
planning_group_node(kw, sp, ts) ==
    IF ts.ok
    THEN Ok(ts.rest,
            node(IF kw[1] = "C" THEN "PLANNING_CLOSED"
                 ELSE IF kw[1] = "D" THEN "PLANNING_DEADLINE"
                 ELSE "PLANNING_SCHEDULED",
                 <<token("TEXT", kw), token("COLON", <<":">>)>>
                 \o (IF sp.out = <<>> THEN <<>> ELSE <<token("WHITESPACE", sp.out)>>)
                 \o <<ts.out>>))
    ELSE Err

\* the group after its keyword kw and the whitespace sp behind the colon
planning_group_timestamp(kw, sp) ==
    planning_group_node(kw, sp, timestamp_node(sp.rest))

\* one  KEYWORD ':' WS timestamp  group
planning_group(s) ==
    IF \E kw \in PlanningKeywords : StartsWith(s, kw \o <<":">>)
    THEN planning_group_timestamp(planning_keyword(s),
                                  space0(SubSeq(s, Len(planning_keyword(s)) + 2, Len(s))))
    ELSE Err

RECURSIVE planning_groups(_)

\* the group g, its whitespace sp and the groups more after them
planning_groups_push(g, sp, more) ==
    [rest |-> more.rest,
     out |-> <<g.out>>
             \o (IF sp.out = <<>> THEN <<>> ELSE <<token("WHITESPACE", sp.out)>>)
             \o more.out]

\* the groups from a parsed group g and the whitespace sp after it
planning_groups_rest(g, sp) ==
    planning_groups_push(g, sp, planning_groups(sp.rest))

\* the groups of s when its first group parsed as g
planning_groups_first(s, g) ==
    IF ~g.ok THEN [rest |-> s, out |-> <<>>]
    ELSE planning_groups_rest(g, space0(g.rest))

\* the groups of a planning line, each followed by its whitespace
planning_groups(s) == planning_groups_first(s, planning_group(s))

\* the end of a line: nothing left, or a line feed with an optional CR
line_end(s) ==
    IF s = <<>> THEN Ok(s, <<>>)
    ELSE IF StartsWith(s, <<"\n">>)
        THEN Ok(Tail(s), <<token("NEW_LINE", <<"\n">>)>>)
    ELSE IF StartsWith(s, <<"\r", "\n">>)
        THEN Ok(SubSeq(s, 3, Len(s)), <<token("NEW_LINE", <<"\r", "\n">>)>>)
    ELSE Err

\* the node of the line: whitespace sp, groups gs, line end e
planning_line(sp, gs, e) ==
    IF gs.out # <<>> /\ e.ok
    THEN Ok(e.rest,
            node("PLANNING",
                 (IF sp.out = <<>> THEN <<>> ELSE <<token("WHITESPACE", sp.out)>>)
                 \o gs.out \o e.out))
    ELSE Err

\* the line from its leading whitespace sp and its groups gs
planning_line_end(sp, gs) == planning_line(sp, gs, line_end(gs.rest))

planning_node(s) == planning_line_end(space0(s), planning_groups(space0(s).rest))

Lower == <<"a", "b", "c", "d", "e", "f", "g", "h", "i", "j", "k", "l", "m",
           "n", "o", "p", "q", "r", "s", "t", "u", "v", "w", "x", "y", "z">>
Upper == <<"A", "B", "C", "D", "E", "F", "G", "H", "I", "J", "K", "L", "M",
           "N", "O", "P", "Q", "R", "S", "T", "U", "V", "W", "X", "Y", "Z">>

to_ascii_uppercase(c) ==
    IF \E k \in 1..26 : Lower[k] = c
    THEN Upper[CHOOSE k \in 1..26 : Lower[k] = c]
    ELSE c

\* a line  WS word WS EOL  whose word equals w up to ASCII case
marker_line(s, w) ==
    LET sp == space0(s)
        word == SubSeq(sp.rest, 1, Len(w))
        sp2 == space0(SubSeq(sp.rest, Len(w) + 1, Len(sp.rest)))
        e == line_end(sp2.rest)
    IN  IF /\ Len(sp.rest) >= Len(w)
           /\ [k \in 1..Len(w) |-> to_ascii_uppercase(word[k])] = w
           /\ e.ok
        THEN Ok(e.rest,
                (IF sp.out = <<>> THEN <<>> ELSE <<token("WHITESPACE", sp.out)>>)
                \o <<token("TEXT", word)>>
                \o (IF sp2.out = <<>> THEN <<>> ELSE <<token("WHITESPACE", sp2.out)>>)
                \o e.out)
        ELSE Err

\* a line  :KEY: VALUE  closed by a line feed
node_property_node(s) ==
    LET m == memchr("\n", s)
        l == take_split(s, m + 1)
        n == IF StartsWith(l.out, <<":">>)
             THEN TakeWhileNotIn(Tail(l.out), AsciiWhitespace \cup {":"})
             ELSE 0
    IN  IF m >= 0 /\ n >= 1 /\ Len(l.out) >= n + 2 /\ l.out[n + 2] = ":"
        THEN Ok(l.rest,
                node("NODE_PROPERTY",
                     <<token("COLON", <<":">>),
                       token("TEXT", SubSeq(l.out, 2, n + 1)),
                       token("COLON", <<":">>)>>
                     \o (IF n + 2 = Len(l.out) - 1 THEN <<>>
                         ELSE <<token("TEXT", SubSeq(l.out, n + 3, Len(l.out) - 1))>>)
                     \o <<token("NEW_LINE", <<"\n">>)>>))
        ELSE Err

\* the lines after :PROPERTIES: up to and including :END:
RECURSIVE drawer_lines(_)
drawer_lines(s) ==
    LET e == marker_line(s, <<":", "E", "N", "D", ":">>)
        p == node_property_node(s)
    IN  IF e.ok THEN Ok(e.rest, e.out)
        ELSE IF p.ok
        THEN LET more == drawer_lines(p.rest)
             IN  IF more.ok THEN Ok(more.rest, <<p.out>> \o more.out) ELSE Err
        ELSE Err

property_drawer_node(s) ==
    LET b == marker_line(s, <<":", "P", "R", "O", "P", "E", "R", "T", "I", "E", "S", ":">>)
        ls == IF b.ok /\ b.rest # <<>> THEN drawer_lines(b.rest) ELSE Err
    IN  IF ls.ok THEN Ok(ls.rest, node("PROPERTY_DRAWER", b.out \o ls.out))
        ELSE Err

\* offset of the first line start of s from which a blank line begins,
\* Len(s) when there is none
paragraph_end(s) ==
    LET ends == {k \in 1..Len(s) : s[k] = "\n" /\ blank_lines(SubSeq(s, k + 1, Len(s))).out # <<>>}
    IN  IF ends = {} THEN Len(s)
        ELSE CHOOSE k \in ends : \A j \in ends : k <= j

\* elements of a section: blank lines and the paragraph fallback
RECURSIVE element_nodes(_)
element_nodes(s) ==
    IF s = <<>> THEN <<>>
    ELSE
        LET lead == blank_lines(s) IN
        IF lead.out # <<>>
        THEN <<node("PARAGRAPH", lead.out)>> \o element_nodes(lead.rest)
        ELSE LET p == take_split(s, paragraph_end(s))
                 post == blank_lines(p.rest)
             IN  <<node("PARAGRAPH", <<token("TEXT", p.out)>> \o post.out)>>
                 \o element_nodes(post.rest)

section_node(s) ==
    LET t == section_text(s) IN
    IF t.ok THEN Ok(t.rest, node("SECTION", element_nodes(t.out))) ELSE Err

----------------------------------------------------------------------------
(* NodeBuilder *)

ws_assertion(i) == \A k \in 1..Len(i) : i[k] \in AsciiWhitespace

nl_assertion(i) == i = <<"\n">> \/ i = <<"\r", "\n">>

ws(children, i) ==
    IF i # <<>> THEN Append(children, token("WHITESPACE", i)) ELSE children

nl_normalised(children, i) ==
    IF i # <<>> THEN Append(children, token("NEW_LINE", <<"\n">>)) ELSE children

nl(children, i) ==
    IF i # <<>> THEN Append(children, token("NEW_LINE", i)) ELSE children

push(children, elem) == Append(children, elem)

push_opt(children, o) == IF o.some THEN Append(children, o.out) ELSE children

finish(children, kind) == node(kind, children)

\* does the call NodeBuilder::ws(i) / ::nl(i) pass its debug_assert!
call_passes(c) ==
    \/ c[2] = <<>>
    \/ IF c[1] = "ws" THEN ws_assertion(c[2]) ELSE nl_assertion(c[2])

----------------------------------------------------------------------------
(* headline_node as a machine: one activation of headline_node_base per    *)
(* stack frame, one action per stretch of its body                         *)

Frame(i) == [pc |-> "stars", i_ |-> i, input |-> i, level |-> 0, children |-> <<>>]

Running == result.status = "running" /\ stack # <<>>
Top == stack[Len(stack)]
SetTop(f) == [stack EXCEPT ![Len(stack)] = f]

Panic ==
    /\ result' = [status |-> "panic", rest |-> <<>>, out |-> <<>>]
    /\ stack' = <<>>

\* let (input, stars) = headline_stars(input)?;  b.token(HEADLINE_STARS, stars)
HeadlineStars ==
    /\ Running /\ Top.pc = "stars"
    /\ LET r == headline_stars(Top.input) IN
        /\ r.ok
        /\ stack' = SetTop([Top EXCEPT !.pc = "prefix", !.input = r.rest,
                                       !.level = Len(r.out),
                                       !.children = <<token("HEADLINE_STARS", r.out)>>])
    /\ UNCHANGED <<input, debug, calls, result>>

\* the error of headline_stars leaves every active call through its `?`
HeadlineStarsErr ==
    /\ Running /\ Top.pc = "stars"
    /\ ~headline_stars(Top.input).ok
    /\ result' = [status |-> "Err", rest |-> <<>>, out |-> <<>>]
    /\ stack' = <<>>
    /\ UNCHANGED <<input, debug, calls>>

\* whitespace, optional keyword, optional priority
HeadlinePrefix ==
    /\ Running /\ Top.pc = "prefix"
    /\ LET sp == space0(Top.input)
           kw == opt(headline_keyword_token(sp.rest), sp.rest)
           pr == opt(headline_priority_node(kw.rest), kw.rest)
           b1 == ws(Top.children, sp.out)
           b2 == IF kw.some THEN ws(push(b1, kw.out[1]), kw.out[2]) ELSE b1
           b3 == IF pr.some THEN ws(push(b2, pr.out[1]), pr.out[2]) ELSE b2
           made == {<<"ws", sp.out>>}
                   \cup (IF kw.some THEN {<<"ws", kw.out[2]>>} ELSE {})
                   \cup (IF pr.some THEN {<<"ws", pr.out[2]>>} ELSE {})
       IN
        /\ calls' = calls \cup made
        /\ IF debug /\ \E c \in made : ~call_passes(c)
           THEN Panic
           ELSE /\ stack' = SetTop([Top EXCEPT !.pc = "title", !.input = pr.rest,
                                               !.children = b3])
                /\ UNCHANGED result
    /\ UNCHANGED <<input, debug>>

\* rest of the first line: title, tags, trailing whitespace, line terminator
HeadlineTitle ==
    /\ Running /\ Top.pc = "title"
    /\ LET t == trim_line_end(Top.input)
           tg == opt(headline_tags_node(t.contents), t.contents)
           title == tg.rest
           b1 == IF title # <<>>
                 THEN push(Top.children, node("HEADLINE_TITLE", object_nodes(title)))
                 ELSE Top.children
           b2 == nl(ws(push_opt(b1, tg), t.ws), t.nl)
           made == {<<"ws", t.ws>>, <<"nl", t.nl>>}
       IN
        /\ calls' = calls \cup made
        /\ IF debug /\ \E c \in made : ~call_passes(c)
           THEN Panic
           ELSE /\ stack' = SetTop([Top EXCEPT
                                      !.pc = IF t.nl = <<>> THEN "return" ELSE "body",
                                      !.input = t.rest, !.children = b2])
                /\ UNCHANGED result
    /\ UNCHANGED <<input, debug>>

\* optional planning line, property drawer and section
HeadlineBody ==
    /\ Running /\ Top.pc = "body"
    /\ LET pl == opt(planning_node(Top.input), Top.input)
           pd == opt(property_drawer_node(pl.rest), pl.rest)
           se == opt(section_node(pd.rest), pd.rest)
       IN  stack' = SetTop([Top EXCEPT
                              !.pc = "loop", !.input = se.rest,
                              !.children = push_opt(push_opt(push_opt(Top.children, pl), pd), se)])
    /\ UNCHANGED <<input, debug, calls, result>>

\* next_level: the run of stars the remaining input starts with
next_level(i) == TakeWhileIn(i, {"*"})

loop_breaks_always(i, current_level) == TRUE

loop_breaks_lt(i, current_level) == i = <<>> \/ next_level(i) < current_level

loop_breaks(i, current_level) == i = <<>> \/ next_level(i) <= current_level

\* while !i.is_empty() { if next_level <= current_level { break; } ...
ChildLoopBreak ==
    /\ Running /\ Top.pc = "loop"
    /\ loop_breaks(Top.input, Top.level)
    /\ stack' = SetTop([Top EXCEPT !.pc = "return"])
    /\ UNCHANGED <<input, debug, calls, result>>

\* ... let (input, headline) = headline_node(i)?;
ChildLoopCall ==
    /\ Running /\ Top.pc = "loop"
    /\ ~loop_breaks(Top.input, Top.level)
    /\ stack' = Append(SetTop([Top EXCEPT !.pc = "child"]), Frame(Top.input))
    /\ UNCHANGED <<input, debug, calls, result>>

\* lossless_parser!: the consumed prefix against the text of the tree
lossless_assertion(i_, i, o) ==
    SubSeq(i_, 1, Len(i_) - Len(i)) = to_string(o)

\* Ok((i, b.finish(HEADLINE))), through lossless_parser!, to the caller:
\* b.push(headline); i = input;  or to the outside
HeadlineReturn ==
    /\ Running /\ Top.pc = "return"
    /\ LET o == finish(Top.children, "HEADLINE") IN
        IF debug /\ ~lossless_assertion(Top.i_, Top.input, o)
        THEN Panic
        ELSE IF Len(stack) = 1
        THEN /\ result' = [status |-> "Ok", rest |-> Top.input, out |-> o]
             /\ stack' = <<>>
        ELSE LET caller == stack[Len(stack) - 1] IN
             /\ stack' = [SubSeq(stack, 1, Len(stack) - 1) EXCEPT
                            ![Len(stack) - 1] =
                                [caller EXCEPT !.pc = "loop", !.input = Top.input,
                                               !.children = push(caller.children, o)]]
             /\ UNCHANGED result
    /\ UNCHANGED <<input, debug, calls>>

Next ==
    \/ HeadlineStars
    \/ HeadlineStarsErr
    \/ HeadlinePrefix
    \/ HeadlineTitle
    \/ HeadlineBody
    \/ ChildLoopBreak
    \/ ChildLoopCall
    \/ HeadlineReturn

----------------------------------------------------------------------------
(* Inputs *)

\* the sequences of at most n elements of S
SeqsUpTo(S, n) == UNION {[1..k -> S] : k \in 0..n}

\* the texts made of a prefix and at most n pieces
Texts(prefixes, pieces, n) ==
    {p \o Flatten(ps) : p \in prefixes, ps \in SeqsUpTo(pieces, n)}

NestChars == {<<"*">>, <<" ">>, <<"\n">>, <<"\r">>, <<"a">>}

NestInputs == Texts({<<>>}, NestChars, MaxNestLen)

TitlePieces ==
    {<<" ">>, <<"\t">>, <<"\r">>, <<"\n">>, <<"\f">>, <<"a">>, <<":">>,
     <<":", "a", ":">>, <<" ", ":", "a", ":">>, <<"(">>}

TitleInputs ==
    Texts({<<"*">>, <<"*", " ", "T", "O", "D", "O", " ", "[", "#", "U+7834", "]", " ", "a">>},
          TitlePieces, MaxPieces)

BodyPieces ==
    {<<"S", "C", "H", "E", "D", "U", "L", "E", "D", ":", " ",
       "<", "2", "0", "0", "0", "-", "0", "1", "-", "0", "1", ">">>,
     <<"C", "L", "O", "S", "E", "D", ":",
       "[", "2", "0", "0", "0", "-", "0", "1", "-", "0", "1", "]">>,
     <<":", "P", "R", "O", "P", "E", "R", "T", "I", "E", "S", ":", "\n">>,
     <<":", "e", "n", "d", ":">>,
     <<":", "k", ":", " ", "v", "\n">>,
     <<" ">>, <<"\n">>, <<"\r", "\n">>, <<"a">>,
     <<"*", "*", " ", "b", "\n">>, <<"*">>}

BodyInputs == Texts({<<"*", " ", "a", "\n">>}, BodyPieces, MaxPieces)

\* a few texts that take every path of the machine
CoreInputs ==
    {<<"a">>, <<"*", "a">>, <<"*", "\n", "*", "*">>, <<"*", "\n", "*", "*", "\n", "*">>,
     <<"*", "\n", "a", "\n", "*", "*", " ", "a", "\n", "*">>}

KeywordPieces ==
    {<<"T", "O", "D", "O">>, <<"D", "O", "N", "E">>, <<"t", "o", "d", "o">>,
     <<"a">>, <<":">>, <<" ">>, <<"\t">>, <<"\n">>, <<"\r">>, <<"U+00A0">>}

KeywordInputs ==
    Texts({<<"*">>, <<"*", " ">>}, KeywordPieces, MaxPieces) \cup CoreInputs

PriorityPieces ==
    {<<"[", "#">>, <<"[">>, <<"#">>, <<"A">>, <<"U+7834">>, <<"]">>, <<" ">>,
     <<"\n">>}

PriorityInputs ==
    Texts({<<"*", " ">>, <<"*", " ", "T", "O", "D", "O", " ">>, <<"*">>},
          PriorityPieces, MaxPieces) \cup CoreInputs

CommentPieces ==
    {<<"C", "O", "M", "M", "E", "N", "T">>, <<"E", "D">>, <<" ">>, <<"\t">>,
     <<"a">>, <<"<", "<", "a", ">", ">">>, <<":", "a", ":">>, <<"U+00A0">>,
     <<"\n">>, <<"T", "O", "D", "O", " ">>}

CommentInputs == Texts({<<"*", " ">>}, CommentPieces, MaxPieces) \cup CoreInputs

Inputs == NestInputs \cup TitleInputs \cup BodyInputs

\* the state at the call headline_node(i) in a build with or without
\* debug assertions
Call(i) ==
    /\ input = i
    /\ debug \in BOOLEAN
    /\ stack = <<Frame(input)>>
    /\ calls = {}
    /\ result = [status |-> "running", rest |-> <<>>, out |-> <<>>]

Init == \E i \in Inputs : Call(i)

Spec == Init /\ [][Next]_vars

InitKeyword == \E i \in KeywordInputs : Call(i)

SpecKeyword == InitKeyword /\ [][Next]_vars

InitPriority == \E i \in PriorityInputs : Call(i)

SpecPriority == InitPriority /\ [][Next]_vars

InitComment == \E i \in CommentInputs : Call(i)

SpecComment == InitComment /\ [][Next]_vars

----------------------------------------------------------------------------
(* Trees of a state *)

RECURSIVE Subtrees(_)
Subtrees(e) ==
    {e} \cup UNION {Subtrees(e.children[k]) : k \in 1..Len(e.children)}

\* the HEADLINE nodes built so far: the result and the finished children
Headlines ==
    LET roots == (IF result.status = "Ok" THEN {result.out} ELSE {})
                 \cup UNION {{stack[k].children[j] : j \in 1..Len(stack[k].children)} :
                               k \in 1..Len(stack)}
    IN  {h \in UNION {Subtrees(r) : r \in roots} : h.kind = "HEADLINE"}

Kinds(e) == [k \in 1..Len(e.children) |-> e.children[k].kind]

HasChild(e, kind) == \E k \in 1..Len(e.children) : e.children[k].kind = kind

Child(e, kind) ==
    e.children[CHOOSE k \in 1..Len(e.children) :
                  /\ e.children[k].kind = kind
                  /\ \A j \in 1..(k - 1) : e.children[j].kind # kind]

\* Headline::level: the length of the HEADLINE_STARS token
level(h) == Len(Child(h, "HEADLINE_STARS").text)

----------------------------------------------------------------------------
(* C1 *)

\* C1: whenever headline_node succeeds with (rest, tree), the token texts of
\* tree in left-to-right order followed by rest are the input, for the
\* outermost call and for every call made for a child headline.
C1_Lossless ==
    /\ result.status = "Ok" => to_string(result.out) \o result.rest = input
    /\ \A k \in 1..Len(stack) :
          stack[k].pc = "return" =>
              to_string(finish(stack[k].children, "HEADLINE")) \o stack[k].input
                  = stack[k].i_

C1_Witness ==
    /\ result.status = "Ok"
    /\ HasChild(result.out, "HEADLINE_KEYWORD")
    /\ HasChild(result.out, "HEADLINE_PRIORITY")
    /\ HasChild(result.out, "HEADLINE_TAGS")
    /\ HasChild(result.out, "NEW_LINE")
    /\ Kinds(result.out)[Len(result.out.children) - 1] = "WHITESPACE"

----------------------------------------------------------------------------
(* C2 *)

\* C2: every HEADLINE that is a direct child of a HEADLINE of level L has a
\* level greater than L.
C2_Nesting ==
    \A h \in Headlines :
        \A k \in 1..Len(h.children) :
            h.children[k].kind = "HEADLINE" => level(h.children[k]) > level(h)

C2_Witness ==
    /\ result.status = "Ok"
    /\ result.rest # <<>>
    /\ HasChild(result.out, "HEADLINE")

----------------------------------------------------------------------------
(* C3 *)

\* C3: headline_node returns Ok for every input that begins with one or
\* more '*' followed by a space, CR, LF or the end of input.
C3_NeverFails ==
    LET n == TakeWhileIn(input, {"*"}) IN
    (/\ n >= 1
     /\ (n = Len(input) \/ input[n + 1] \in {" ", "\r", "\n"})
     /\ result.status # "running")
        => result.status = "Ok"

----------------------------------------------------------------------------
(* C4 *)

\* C4: every call b.ws(x) has x made of whitespace bytes only and every call
\* b.nl(x) has x equal to "", "\n" or "\r\n", so that no debug assertion of
\* NodeBuilder fails.
C4_AssertionsHold == \A c \in calls : call_passes(c)

----------------------------------------------------------------------------
(* headline_stars and headline_tags_node on their own *)

Outcome(r) ==
    IF r.ok THEN [status |-> "Ok", rest |-> r.rest, out |-> r.out]
    ELSE [status |-> "Err", rest |-> <<>>, out |-> <<>>]

\* the state before a call of a parser on the text i
Before(i) ==
    /\ input = i
    /\ debug = FALSE
    /\ stack = <<>>
    /\ calls = {}
    /\ result = [status |-> "running", rest |-> <<>>, out |-> <<>>]

StarsChars == {<<"*">>, <<" ">>, <<"\t">>, <<"\n">>, <<"\r">>, <<"a">>}

StarsInputs == Texts({<<>>}, StarsChars, MaxStarsLen)

InitStars == \E i \in StarsInputs : Before(i)

CallHeadlineStars ==
    /\ result.status = "running"
    /\ result' = Outcome(headline_stars(input))
    /\ UNCHANGED <<input, debug, stack, calls>>

NextStars == CallHeadlineStars

SpecStars == InitStars /\ [][NextStars]_vars

TagsPieces ==
    {<<":">>, <<"a">>, <<"%">>, <<" ">>, <<"\t">>, <<"(">>, <<"U+7834">>,
     <<":", "a", ":">>}

TagsInputs == Texts({<<>>}, TagsPieces, MaxTagsLen)

InitTags == \E i \in TagsInputs : Before(i)

CallHeadlineTagsNode ==
    /\ result.status = "running"
    /\ result' = Outcome(headline_tags_node(input))
    /\ UNCHANGED <<input, debug, stack, calls>>

NextTags == CallHeadlineTagsNode

SpecTags == InitTags /\ [][NextTags]_vars

----------------------------------------------------------------------------
(* AST overlay *)

Some(x) == [some |-> TRUE, out |-> x]
None == [some |-> FALSE, out |-> <<>>]

\* filter_token(kind) over children_with_tokens()
filter_token(n, kind) ==
    SelectSeq(n.children, LAMBDA e : e.leaf /\ e.kind = kind)

\* HeadlineTags::iter, as the texts of the tokens it yields
HeadlineTags_iter(tags) ==
    LET ts == filter_token(tags, "TEXT") IN [k \in 1..Len(ts) |-> ts[k].text]

----------------------------------------------------------------------------
(* C5 *)

\* the bytes [A-Za-z0-9_@#%]
C5_Alphabet == AsciiAlphanumeric \cup {"_", "@", "#", "%"}

\* C5: every TEXT token of a HEADLINE_TAGS node produced by
\* headline_tags_node is non-empty and made of bytes in [A-Za-z0-9_@#%].
C5_TagAlphabet ==
    result.status = "Ok" =>
        \A k \in 1..Len(result.out.children) :
            result.out.children[k].kind = "TEXT" =>
                /\ result.out.children[k].text # <<>>
                /\ \A j \in 1..Len(result.out.children[k].text) :
                      result.out.children[k].text[j] \in C5_Alphabet

C5_Witness ==
    /\ result.status = "Ok"
    /\ HasChild(result.out, "TEXT")
    /\ \E k \in 1..Len(input) : input[k] \in {"(", "U+7834"}

----------------------------------------------------------------------------
(* C6 *)

\* C6: headline_stars succeeds exactly when the input starts with a star
\* and the maximal run of stars is followed by a space, CR, LF or the end
\* of input, and it then returns that run and the text after it.
C6_Stars ==
    result.status # "running" =>
        \A n \in 0..Len(input) :
            (/\ \A k \in 1..n : input[k] = "*"
             /\ (n < Len(input) => input[n + 1] # "*"))
            => /\ result.status = "Ok" <=>
                    /\ n >= 1
                    /\ (n = Len(input) \/ input[n + 1] \in {" ", "\r", "\n"})
               /\ result.status = "Ok" =>
                    /\ result.out = SubSeq(input, 1, n)
                    /\ result.rest = SubSeq(input, n + 1, Len(input))

C6_Witness ==
    /\ result.status = "Ok"
    /\ Len(result.out) >= 2
    /\ result.rest # <<>>

----------------------------------------------------------------------------
(* C8 *)

\* the texts between consecutive colons of s, left to right
C8_Between(s) ==
    LET cs == Ascending({k \in 1..Len(s) : s[k] = ":"})
    IN  [j \in 1..(Len(cs) - 1) |-> SubSeq(s, cs[j] + 1, cs[j + 1] - 1)]

\* C8: HeadlineTags::iter yields, in source order, exactly the non-empty
\* tag texts between consecutive colons of the tag region, and neither
\* colons nor whitespace.
C8_TagsIter ==
    result.status = "Ok" =>
        HeadlineTags_iter(result.out)
            = SelectSeq(C8_Between(SubSeq(input, Len(result.rest) + 1, Len(input))),
                        LAMBDA t : t # <<>> /\ \E k \in 1..Len(t) : t[k] \notin SpaceTab)

C8_Witness ==
    /\ result.status = "Ok"
    /\ Len(HeadlineTags_iter(result.out)) = 2
    /\ HeadlineTags_iter(result.out)[1] # HeadlineTags_iter(result.out)[2]

----------------------------------------------------------------------------
(* Accessors of Headline and HeadlinePriority *)

\* support::child::<N>: the first child node of the kind
child(n, kind) ==
    IF \E k \in 1..Len(n.children) : ~n.children[k].leaf /\ n.children[k].kind = kind
    THEN Some(n.children[CHOOSE k \in 1..Len(n.children) :
                  /\ ~n.children[k].leaf /\ n.children[k].kind = kind
                  /\ \A j \in 1..(k - 1) :
                        n.children[j].leaf \/ n.children[j].kind # kind])
    ELSE None

\* support::token: the first child token of the kind
first_child_token(n, kind) ==
    LET ts == filter_token(n, kind) IN
    IF ts = <<>> THEN None ELSE Some(ts[1])

\* Headline::title
title(h) == child(h, "HEADLINE_TITLE")

\* SyntaxNode::first_token
RECURSIVE first_token(_)
first_token(n) ==
    IF n.children = <<>> THEN None
    ELSE IF n.children[1].leaf THEN Some(n.children[1])
    ELSE first_token(n.children[1])

COMMENT == <<"C", "O", "M", "M", "E", "N", "T">>

is_commented_prefix(h) ==
    LET t == title(h)
        tk == IF t.some THEN first_token(t.out) ELSE None
    IN  IF tk.some
        THEN tk.out.kind = "TEXT" /\ StartsWith(tk.out.text, COMMENT)
        ELSE FALSE

is_commented(h) ==
    LET t == title(h)
        tk == IF t.some THEN first_token(t.out) ELSE None
    IN  IF tk.some
        THEN /\ tk.out.kind = "TEXT"
             /\ StartsWith(tk.out.text, COMMENT)
             /\ \/ Len(tk.out.text) = 7
                \/ tk.out.text[8] \in UnicodeWhitespace
        ELSE FALSE

\* HeadlinePriority::text_string
text_string(p) ==
    LET tk == first_child_token(p, "TEXT") IN
    IF tk.some THEN Some(tk.out.text) ELSE None

----------------------------------------------------------------------------
(* C7 *)

\* the maximal run of non-whitespace characters after the stars of s and
\* the spaces and tabs that follow them
C7_Word(s) ==
    LET a == SubSeq(s, TakeWhileIn(s, {"*"}) + 1, Len(s))
        b == SubSeq(a, TakeWhileIn(a, SpaceTab) + 1, Len(a))
    IN  SubSeq(b, 1, TakeWhileNotIn(b, AsciiWhitespace))

C7_Keywords == {<<"T", "O", "D", "O">>, <<"D", "O", "N", "E">>}

\* C7: a headline has a HEADLINE_KEYWORD token exactly when the maximal run
\* of non-whitespace characters after its stars and their whitespace is one
\* of the keywords, byte for byte; the token is then that run.
C7_Keyword ==
    \A h \in Headlines :
        /\ HasChild(h, "HEADLINE_KEYWORD") <=> C7_Word(to_string(h)) \in C7_Keywords
        /\ HasChild(h, "HEADLINE_KEYWORD") =>
              Child(h, "HEADLINE_KEYWORD").text = C7_Word(to_string(h))

C7_Witness ==
    /\ result.status = "Ok"
    /\ HasChild(result.out, "HEADLINE_KEYWORD")
    /\ HasChild(result.out, "HEADLINE_TITLE")

----------------------------------------------------------------------------
(* C9 *)

\* the position of the first child of the kind
C9_Index(h, kind) ==
    CHOOSE k \in 1..Len(h.children) :
        /\ h.children[k].kind = kind
        /\ \A j \in 1..(k - 1) : h.children[j].kind # kind

\* C9: a HEADLINE_PRIORITY node stands directly after the stars, their
\* whitespace and the optional keyword with its whitespace; its text is
\* '[' '#' c ']' for one character c, its children are L_BRACKET, HASH,
\* TEXT, R_BRACKET, and text_string is c.
C9_Priority ==
    \A h \in Headlines :
        HasChild(h, "HEADLINE_PRIORITY") =>
            LET k == C9_Index(h, "HEADLINE_PRIORITY")
                p == h.children[k]
                src == to_string(p)
            IN  /\ SubSeq(Kinds(h), 1, k - 1) \in
                      {<<"HEADLINE_STARS">>,
                       <<"HEADLINE_STARS", "WHITESPACE">>,
                       <<"HEADLINE_STARS", "HEADLINE_KEYWORD">>,
                       <<"HEADLINE_STARS", "WHITESPACE", "HEADLINE_KEYWORD">>,
                       <<"HEADLINE_STARS", "HEADLINE_KEYWORD", "WHITESPACE">>,
                       <<"HEADLINE_STARS", "WHITESPACE", "HEADLINE_KEYWORD", "WHITESPACE">>}
                /\ Len(src) = 4 /\ src[1] = "[" /\ src[2] = "#" /\ src[4] = "]"
                /\ Kinds(p) = <<"L_BRACKET", "HASH", "TEXT", "R_BRACKET">>
                /\ \A j \in 1..4 : p.children[j].leaf
                /\ text_string(p) = Some(<<src[3]>>)

C9_Witness ==
    /\ result.status = "Ok"
    /\ HasChild(result.out, "HEADLINE_KEYWORD")
    /\ HasChild(result.out, "HEADLINE_PRIORITY")
    /\ text_string(Child(result.out, "HEADLINE_PRIORITY")) = Some(<<"U+7834">>)

----------------------------------------------------------------------------
(* C10 *)

\* the leftmost token below n, or n itself when it has no children
RECURSIVE C10_Leftmost(_)
C10_Leftmost(n) ==
    IF n.children = <<>> THEN n ELSE C10_Leftmost(n.children[1])

\* C10: is_commented is true exactly when the headline has a HEADLINE_TITLE
\* whose first token is a TEXT token that is "COMMENT" or starts with
\* "COMMENT" followed by a whitespace character; so it is false without a
\* title and for a title source that starts with "COMMENTED" or does not
\* start with "COMMENT".
C10_IsCommented ==
    \A h \in Headlines :
        /\ is_commented(h) <=>
              /\ HasChild(h, "HEADLINE_TITLE")
              /\ LET tk == C10_Leftmost(Child(h, "HEADLINE_TITLE")) IN
                    /\ tk.leaf /\ tk.kind = "TEXT"
                    /\ \/ tk.text = COMMENT
                       \/ \E w \in UnicodeWhitespace :
                             StartsWith(tk.text, COMMENT \o <<w>>)
        /\ ~HasChild(h, "HEADLINE_TITLE") => ~is_commented(h)
        /\ HasChild(h, "HEADLINE_TITLE") =>
              LET src == to_string(Child(h, "HEADLINE_TITLE")) IN
                 /\ StartsWith(src, COMMENT \o <<"E", "D">>) => ~is_commented(h)
                 /\ ~StartsWith(src, COMMENT) => ~is_commented(h)
                 /\ (src = COMMENT \/ StartsWith(src, COMMENT \o <<" ">>))
                        => is_commented(h)

C10_Witness ==
    /\ result.status = "Ok"
    /\ is_commented(result.out)
    /\ HasChild(result.out, "HEADLINE_TAGS")
    /\ Len(to_string(Child(result.out, "HEADLINE_TITLE"))) > 7

----------------------------------------------------------------------------
(* Timestamp accessors (src/ast/timestamp.rs) *)

\* a failed debug_assert! inside an accessor
Panicked == [some |-> FALSE, panic |-> TRUE]

IsPanic(r) == "panic" \in DOMAIN r

IsNone(r) == ~IsPanic(r) /\ ~r.some

\* equality of two Option values
SameOption(a, b) ==
    /\ ~IsPanic(a) /\ ~IsPanic(b)
    /\ a.some <=> b.some
    /\ a.some => a.out = b.out

\* children_with_tokens().find_map(filter_token(kind))
find_map_token(n, kind) ==
    LET ts == filter_token(n, kind) IN
    IF ts = <<>> THEN None ELSE Some(ts[1])

\* children_with_tokens().skip_while(|n| n.kind() != kind).nth(k)
skip_while_nth(n, kind, k) ==
    LET skipped == TakeWhileNotIn(Kinds(n), {kind}) IN
    IF skipped + k + 1 <= Len(n.children)
    THEN Some(n.children[skipped + k + 1])
    ELSE None

is_range_ge2(ts) == Len(filter_token(ts, "MINUS")) >= 2

\* Timestamp::is_range
is_range(ts) == Len(filter_token(ts, "MINUS")) > 2

\* Timestamp::repeater_type
repeater_type(ts) ==
    LET t == find_map_token(ts, "TIMESTAMP_REPEATER_MARK") IN
    IF ~t.some THEN None
    ELSE IF t.out.text = <<"+", "+">> THEN Some("CatchUp")
    ELSE IF t.out.text = <<"+">> THEN Some("Cumulate")
    ELSE IF t.out.text = <<".", "+">> THEN Some("Restart")
    ELSE IF debug THEN Panicked
    ELSE Some("CatchUp")

\* a u32 as its two 16-bit halves
U32(hi, lo) == [hi |-> hi, lo |-> lo]

DigitValue(c) == CHOOSE d \in 0..9 : <<"0", "1", "2", "3", "4", "5", "6", "7", "8", "9">>[d + 1] = c

\* the digit loop of u32::from_str: checked_mul(10) then checked_add(digit)
RECURSIVE from_str_digits_wrapping(_, _)
from_str_digits_wrapping(s, acc) ==
    IF s = <<>> THEN Some(acc)
    ELSE IF Head(s) \notin Digit THEN None
    ELSE LET lo10 == acc.lo * 10 + DigitValue(Head(s))
             hi10 == acc.hi * 10 + (lo10 \div 65536)
         IN  from_str_digits_wrapping(Tail(s), U32(hi10 % 65536, lo10 % 65536))

RECURSIVE from_str_digits(_, _)
from_str_digits(s, acc) ==
    IF s = <<>> THEN Some(acc)
    ELSE IF Head(s) \notin Digit THEN None
    ELSE LET lo10 == acc.lo * 10 + DigitValue(Head(s))
             hi10 == acc.hi * 10 + (lo10 \div 65536)
         IN  IF hi10 > 65535 THEN None
             ELSE from_str_digits(Tail(s), U32(hi10, lo10 % 65536))

\* str::parse::<u32>().ok(): an optional '+', then one or more digits
parse_u32(s) ==
    IF s = <<>> THEN None
    ELSE IF s = <<"+">> \/ s = <<"-">> THEN None
    ELSE IF Head(s) = "+" THEN from_str_digits(Tail(s), U32(0, 0))
    ELSE from_str_digits(s, U32(0, 0))

\* the closure of repeater_value / warning_value on the element e
value_of(e) ==
    IF ~e.some THEN None
    ELSE IF e.out.leaf
        THEN IF debug /\ e.out.kind # "TIMESTAMP_VALUE" THEN Panicked
             ELSE parse_u32(e.out.text)
    ELSE None

\* the closure of repeater_unit / warning_unit on the element e
unit_of(e) ==
    IF ~e.some THEN None
    ELSE IF e.out.leaf
        THEN IF debug /\ e.out.kind # "TIMESTAMP_UNIT" THEN Panicked
             ELSE IF e.out.text = <<"h">> THEN Some("Hour")
             ELSE IF e.out.text = <<"d">> THEN Some("Day")
             ELSE IF e.out.text = <<"w">> THEN Some("Week")
             ELSE IF e.out.text = <<"m">> THEN Some("Month")
             ELSE IF e.out.text = <<"y">> THEN Some("Year")
             ELSE None
    ELSE None

repeater_value_any_mark(ts) ==
    value_of(skip_while_nth(ts, IF HasChild(ts, "TIMESTAMP_REPEATER_MARK")
                                THEN "TIMESTAMP_REPEATER_MARK"
                                ELSE "TIMESTAMP_DELAY_MARK", 1))

\* Timestamp::repeater_value
repeater_value(ts) == value_of(skip_while_nth(ts, "TIMESTAMP_REPEATER_MARK", 1))

\* Timestamp::repeater_unit
repeater_unit(ts) == unit_of(skip_while_nth(ts, "TIMESTAMP_REPEATER_MARK", 2))

\* Timestamp::warning_value
warning_value(ts) == value_of(skip_while_nth(ts, "TIMESTAMP_DELAY_MARK", 1))

\* Timestamp::warning_unit
warning_unit(ts) == unit_of(skip_while_nth(ts, "TIMESTAMP_DELAY_MARK", 2))

----------------------------------------------------------------------------
(* Timestamps parsed from text *)

MaxTimestampPieces == 3

TimestampPieces ==
    {<<" ", "T", "u", "e">>,
     <<" ", "0", "9", ":", "3", "9">>,
     <<" ", "0", "9", ":", "3", "9", "-", "1", "0", ":", "3", "9">>,
     <<" ", "+", "1", "w">>,
     <<" ", ".", "+", "1", "0", "d">>,
     <<" ", "+", "+", "4", "2", "9", "4", "9", "6", "7", "2", "9", "5", "m">>,
     <<" ", "+", "4", "2", "9", "4", "9", "6", "7", "2", "9", "6", "h">>,
     <<" ", "-", "3", "y">>,
     <<" ", "-", "-", "0", "0", "7", "w">>,
     <<" ", "-", "9", "9", "9", "9", "9", "9", "9", "9", "9", "9", "9", "d">>,
     <<"]">>,
     <<"]", "-", "-", "[", "2", "0", "0", "0", "-", "0", "1", "-", "0", "2">>,
     <<">">>,
     <<">", "-", "-", "<", "2", "0", "0", "0", "-", "0", "1", "-", "0", "2">>}

TimestampInputs ==
    Texts({<<"[", "2", "0", "0", "0", "-", "0", "1", "-", "0", "1">>, <<"<", "2", "0", "0", "0", "-", "0", "1", "-", "0", "1">>},
          TimestampPieces, MaxTimestampPieces)

\* the state before Org::parse(i).first_node::<Timestamp>() in a build with
\* or without debug assertions
InitTimestamp ==
    \E i \in TimestampInputs :
        /\ input = i
        /\ debug \in BOOLEAN
        /\ stack = <<>>
        /\ calls = {}
        /\ result = [status |-> "running", rest |-> <<>>, out |-> <<>>]

CallTimestampNode ==
    /\ result.status = "running"
    /\ result' = Outcome(timestamp_node(input))
    /\ UNCHANGED <<input, debug, stack, calls>>

NextTimestamp == CallTimestampNode

SpecTimestamp == InitTimestamp /\ [][NextTimestamp]_vars

----------------------------------------------------------------------------
(* C11 *)

\* the part of the input the parser consumed
Consumed == SubSeq(input, 1, Len(input) - Len(result.rest))

\* HH:MM-HH:MM occurs in s
C11_HasTimeRange(s) ==
    \E k \in 1..(Len(s) - 6) : s[k] = ":" /\ s[k + 3] = "-" /\ s[k + 6] = ":"

\* two delimited timestamps joined by "--" occur in s
C11_IsPair(s) ==
    \E k \in 1..(Len(s) - 3) :
        SubSeq(s, k, k + 3) \in {<<"]", "-", "-", "[">>, <<">", "-", "-", "<">>}

\* C11: is_range is true exactly when the timestamp node has three or more
\* MINUS tokens among its direct children: false for a single date or
\* date-time, true for a time range inside one timestamp and for a
\* start--end pair of timestamps.
C11_IsRange ==
    result.status = "Ok" =>
        /\ is_range(result.out)
              <=> Cardinality({k \in 1..Len(result.out.children) :
                                  /\ result.out.children[k].leaf
                                  /\ result.out.children[k].kind = "MINUS"}) >= 3
        /\ is_range(result.out)
              <=> (C11_HasTimeRange(Consumed) \/ C11_IsPair(Consumed))

C11_Witness ==
    /\ result.status = "Ok"
    /\ is_range(result.out)
    /\ C11_IsPair(Consumed)
    /\ ~C11_HasTimeRange(Consumed)

----------------------------------------------------------------------------
(* C12 *)

\* 1-based offset of the first '+' of s, 0 when there is none
C12_FirstPlus(s) ==
    IF \E k \in 1..Len(s) : s[k] = "+"
    THEN CHOOSE k \in 1..Len(s) : s[k] = "+" /\ \A j \in 1..(k - 1) : s[j] # "+"
    ELSE 0

\* the repeater the source text carries first: its mark, digits and unit
C12_Repeater(s) ==
    LET p == C12_FirstPlus(s)
        double == p < Len(s) /\ s[p + 1] = "+"
        after == SubSeq(s, IF double THEN p + 2 ELSE p + 1, Len(s))
        n == TakeWhileIn(after, Digit)
    IN  [type |-> IF double THEN "CatchUp"
                  ELSE IF s[p - 1] = "." THEN "Restart" ELSE "Cumulate",
         digits |-> SubSeq(after, 1, n),
         unit |-> after[n + 1]]

C12_Unit(c) ==
    IF c = "h" THEN "Hour" ELSE IF c = "d" THEN "Day" ELSE IF c = "w" THEN "Week"
    ELSE IF c = "m" THEN "Month" ELSE "Year"

----------------------------------------------------------------------------
(* C13 *)

C13_Max == <<"4", "2", "9", "4", "9", "6", "7", "2", "9", "5">>

\* t without its leading zeros
C13_Strip(t) == SubSeq(t, TakeWhileIn(t, {"0"}) + 1, Len(t))

\* t is a digit string whose value is at most 2^32 - 1
C13_Valid(t) ==
    /\ t # <<>>
    /\ \A k \in 1..Len(t) : t[k] \in Digit
    /\ LET st == C13_Strip(t) IN
        \/ Len(st) < 10
        \/ /\ Len(st) = 10
           /\ \/ st = C13_Max
              \/ \E k \in 1..10 :
                    /\ SubSeq(st, 1, k - 1) = SubSeq(C13_Max, 1, k - 1)
                    /\ DigitValue(st[k]) < DigitValue(C13_Max[k])

\* the decimal digits of the u32 n, without leading zeros
RECURSIVE C13_Decimal(_)
C13_Decimal(n) ==
    LET w == (n.hi % 10) * 65536 + n.lo
        d == <<"0", "1", "2", "3", "4", "5", "6", "7", "8", "9">>[(w % 10) + 1]
    IN  IF n.hi = 0 /\ n.lo < 10 THEN <<d>>
        ELSE C13_Decimal(U32(n.hi \div 10, w \div 10)) \o <<d>>

\* the accessor result r for the token after the first mark of the kind
C13_Agrees(ts, mark, r) ==
    /\ ~IsPanic(r)
    /\ ~HasChild(ts, mark) => IsNone(r)
    /\ HasChild(ts, mark) =>
          LET t == ts.children[TakeWhileNotIn(Kinds(ts), {mark}) + 2].text IN
          /\ r.some <=> C13_Valid(t)
          /\ r.some =>
                C13_Decimal(r.out) = (IF C13_Strip(t) = <<>> THEN <<"0">> ELSE C13_Strip(t))

\* C13: repeater_value and warning_value never panic; they are Some(n) exactly
\* when the token after the mark is the decimal form of n, 0 <= n <= 2^32 - 1,
\* and None otherwise, also for a digit string above 2^32 - 1.
C13_Values ==
    result.status = "Ok" =>
        /\ C13_Agrees(result.out, "TIMESTAMP_REPEATER_MARK", repeater_value(result.out))
        /\ C13_Agrees(result.out, "TIMESTAMP_DELAY_MARK", warning_value(result.out))

C13_Witness ==
    /\ result.status = "Ok"
    /\ debug
    /\ HasChild(result.out, "TIMESTAMP_REPEATER_MARK")
    /\ IsNone(repeater_value(result.out))
    /\ SameOption(warning_value(result.out), Some(U32(0, 7)))

----------------------------------------------------------------------------
(* Headlines whose line ends in a tag region *)

TagLinePieces ==
    {<<":">>, <<"a">>, <<" ">>, <<"\t">>, <<":", "a", ":">>, <<"]">>, <<"\n">>}

TagLineInputs ==
    Texts({<<"*", " ">>, <<"*", " ", "[", "#", "A", "]">>, <<"*", " ", "T", "O", "D", "O", " ">>},
          TagLinePieces, MaxPieces) \cup CoreInputs

InitTagLine == \E i \in TagLineInputs : Call(i)

SpecTagLine == InitTagLine /\ [][Next]_vars

----------------------------------------------------------------------------
(* C14 *)

\* C14: in every parsed headline with a HEADLINE_TAGS node the source byte
\* just before the tags node is a space or a tab.
C14_TagsAfterBlank ==
    \A h \in Headlines :
        \A k \in 1..Len(h.children) :
            h.children[k].kind = "HEADLINE_TAGS" =>
                /\ k > 1
                /\ LET before == to_string(h.children[k - 1])
                   IN  before # <<>> /\ before[Len(before)] \in SpaceTab

----------------------------------------------------------------------------
(* C15 *)

\* the COLON tokens of a HEADLINE_TAGS node
C15_Colons(tags) == Len(filter_token(tags, "COLON"))

\* C15 as stated: headline_tags_node produces a HEADLINE_TAGS node only if
\* at least one tag was matched between colons.
C15_SomeTag ==
    result.status = "Ok" => HasChild(result.out, "TEXT")

\* C15 as the code has it: headline_tags_node produces a HEADLINE_TAGS node
\* only if at least one item (a tag, an empty item or a run of blanks) was
\* matched before the closing colon, so the node has two or more COLON
\* tokens; it fails when the text does not end with a colon or nothing was
\* matched.
C15_SomeItem ==
    /\ result.status = "Ok" => C15_Colons(result.out) >= 2
    /\ (result.status # "running"
        /\ (input = <<>> \/ input[Len(input)] # ":"
            \/ Cardinality({k \in 1..Len(input) : input[k] = ":"}) < 2))
          => result.status = "Err"

C15_Witness ==
    /\ result.status = "Ok"
    /\ ~HasChild(result.out, "TEXT")
    /\ C15_Colons(result.out) = 2
    /\ result.rest # <<>>

----------------------------------------------------------------------------
(* trim_line_end and blank_lines on their own *)

MaxLineLen == 5

LineChars == {<<" ">>, <<"\t">>, <<"\n">>, <<"\r">>, <<"\f">>, <<"a">>}

LineInputs == Texts({<<>>}, LineChars, MaxLineLen)

InitTrim == \E i \in LineInputs : Before(i)

CallTrimLineEnd ==
    /\ result.status = "running"
    /\ LET r == trim_line_end(input) IN
        result' = [status |-> "Ok", rest |-> r.rest,
                   out |-> [contents |-> r.contents, ws |-> r.ws, nl |-> r.nl]]
    /\ UNCHANGED <<input, debug, stack, calls>>

NextTrim == CallTrimLineEnd

SpecTrim == InitTrim /\ [][NextTrim]_vars

InitBlank == \E i \in LineInputs : Before(i)

CallBlankLines ==
    /\ result.status = "running"
    /\ result' = Outcome(blank_lines(input))
    /\ UNCHANGED <<input, debug, stack, calls>>

NextBlank == CallBlankLines

SpecBlank == InitBlank /\ [][NextBlank]_vars

----------------------------------------------------------------------------
(* C16 *)

\* the text of s before its first CR or LF
C16_FirstLine(s) == SubSeq(s, 1, TakeWhileNotIn(s, {"\r", "\n"}))

\* C16: the line terminator returned by trim_line_end is "\n", "\r\n", "\r"
\* or empty, it is empty only at the end of input, and the line ends at the
\* first of these terminators, a lone "\r" included.
C16_Terminator ==
    result.status = "Ok" =>
        /\ result.out.nl \in {<<"\n">>, <<"\r", "\n">>, <<"\r">>, <<>>}
        /\ result.out.nl = <<>> => result.rest = <<>>
        /\ result.out.contents \o result.out.ws = C16_FirstLine(input)

----------------------------------------------------------------------------
(* C17 *)

\* C17: trim_line_end never fails; contents, ws, nl and rest put together
\* are the input, contents does not end with an ASCII whitespace byte, ws
\* is made of spaces and tabs, and all four are empty for the empty input.
C17_Split ==
    result.status # "running" =>
        /\ result.status = "Ok"
        /\ result.out.contents \o result.out.ws \o result.out.nl \o result.rest = input
        /\ result.out.contents # <<>> =>
              result.out.contents[Len(result.out.contents)] \notin AsciiWhitespace
        /\ \A k \in 1..Len(result.out.ws) : result.out.ws[k] \in SpaceTab
        /\ input = <<>> =>
              /\ result.out.contents = <<>> /\ result.out.ws = <<>>
              /\ result.out.nl = <<>> /\ result.rest = <<>>

C17_Witness ==
    /\ result.status = "Ok"
    /\ result.out.contents # <<>>
    /\ \E k \in 1..Len(result.out.contents) : result.out.contents[k] \in AsciiWhitespace
    /\ result.out.ws # <<>>
    /\ result.out.nl # <<>>
    /\ result.rest # <<>>

----------------------------------------------------------------------------
(* C18 *)

\* the texts of the tokens blank_lines returned
C18_Lines == [k \in 1..Len(result.out) |-> result.out[k].text]

\* C18: blank_lines never fails; the BLANK_LINE tokens followed by the rest
\* are the input, every token is made of ASCII whitespace, and the rest is
\* empty or begins at a line start with a line that has a non-whitespace
\* byte.
C18_MaximalPrefix ==
    result.status # "running" =>
        /\ result.status = "Ok"
        /\ Flatten(C18_Lines) \o result.rest = input
        /\ \A k \in 1..Len(result.out) :
              /\ result.out[k].leaf /\ result.out[k].kind = "BLANK_LINE"
              /\ \A j \in 1..Len(result.out[k].text) :
                    result.out[k].text[j] \in AsciiWhitespace
        /\ result.rest # <<>> =>
              /\ \E j \in 1..Len(C16_FirstLine(result.rest)) :
                    result.rest[j] \notin AsciiWhitespace
              /\ Consumed = <<>> \/ Consumed[Len(Consumed)] \in {"\r", "\n"}

C18_Witness ==
    /\ result.status = "Ok"
    /\ Len(result.out) >= 2
    /\ result.rest # <<>>
    /\ result.rest[1] \in SpaceTab

----------------------------------------------------------------------------
(* C19 *)

\* the number of line terminators in t, a CR LF pair counted once
C19_Terminators(t) ==
    Cardinality({k \in 1..Len(t) :
                    \/ t[k] = "\n"
                    \/ t[k] = "\r" /\ ~(k < Len(t) /\ t[k + 1] = "\n")})

\* C19: every BLANK_LINE token of blank_lines is non-empty and has exactly
\* one line terminator, at its end, except that the last token may have none
\* when it reaches the end of input; no CR LF pair is split over two tokens.
C19_OneLineEach ==
    result.status = "Ok" =>
        \A k \in 1..Len(result.out) :
            LET t == result.out[k].text
                after == Flatten(SubSeq(C18_Lines, k + 1, Len(result.out))) \o result.rest
            IN  /\ t # <<>>
                /\ \/ C19_Terminators(t) = 1 /\ t[Len(t)] \in {"\r", "\n"}
                   \/ C19_Terminators(t) = 0 /\ k = Len(result.out) /\ result.rest = <<>>
                /\ ~(t[Len(t)] = "\r" /\ after # <<>> /\ after[1] = "\n")

C19_Witness ==
    /\ result.status = "Ok"
    /\ Len(result.out) >= 3
    /\ \E k \in 1..Len(result.out) : result.out[k].text = <<"\r", "\n">>
    /\ result.out[1].text = <<"\r">>
    /\ C19_Terminators(result.out[Len(result.out)].text) = 0

----------------------------------------------------------------------------
(* section_text on its own *)

MaxSectionLen == 5

SectionChars == {<<"*">>, <<" ">>, <<"\n">>, <<"\r">>, <<"a">>}

SectionInputs == Texts({<<>>}, SectionChars, MaxSectionLen)

InitSection == \E i \in SectionInputs : Before(i)

CallSectionText ==
    /\ result.status = "running"
    /\ result' = Outcome(section_text(input))
    /\ UNCHANGED <<input, debug, stack, calls>>

NextSection == CallSectionText

SpecSection == InitSection /\ [][NextSection]_vars

----------------------------------------------------------------------------
(* C20 *)

\* s begins with a star run followed by a space, CR, LF or the end
C20_HeadlineStart(s) ==
    \E n \in 1..Len(s) :
        /\ \A k \in 1..n : s[k] = "*"
        /\ n = Len(s) \/ s[n + 1] \in {" ", "\r", "\n"}

\* the 0-based offsets of the line starts of s at which a headline begins
C20_Heads(s) ==
    {k \in 0..Len(s) :
        /\ k = 0 \/ s[k] = "\n"
        /\ C20_HeadlineStart(SubSeq(s, k + 1, Len(s)))}

\* C20: section_text fails exactly when the input is empty or begins with a
\* headline star run; otherwise section and rest put together are the
\* input, section is non-empty, rest begins at the first line start where a
\* headline begins (or is empty when there is none), and no line start
\* inside section begins a headline.
C20_SectionText ==
    result.status # "running" =>
        /\ result.status = "Err" <=> (input = <<>> \/ C20_HeadlineStart(input))
        /\ result.status = "Ok" =>
              /\ result.out \o result.rest = input
              /\ result.out # <<>>
              /\ IF C20_Heads(input) = {} THEN result.rest = <<>>
                 ELSE /\ Len(result.out) \in C20_Heads(input)
                      /\ C20_HeadlineStart(result.rest)
              /\ \A k \in C20_Heads(input) : k >= Len(result.out)

C20_Witness ==
    /\ result.status = "Ok"
    /\ result.rest # <<>>
    /\ \E k \in 1..Len(result.out) : result.out[k] = "*"
    /\ \E k \in 1..Len(result.out) : result.out[k] = "\r"

----------------------------------------------------------------------------
(* C21 *)

\* the offsets after the first line of i at which a line starts with a valid
\* headline of level at most l
C21_Siblings(i, l) ==
    {k \in 1..(Len(i) - 1) :
        /\ i[k] = "\n"
        /\ headline_stars(SubSeq(i, k + 1, Len(i))).ok
        /\ next_level(SubSeq(i, k + 1, Len(i))) <= l}

\* what a headline of the text i leaves: the text from the first such line,
\* nothing when there is none
C21_Left(i) ==
    LET ks == C21_Siblings(i, next_level(i)) IN
    IF ks = {} THEN <<>>
    ELSE SubSeq(i, 1 + CHOOSE k \in ks : \A j \in ks : k <= j, Len(i))

\* a call on i that returned rest: a non-empty rest begins, at a line start,
\* a valid headline of level at most that of i, and it is the first such line
C21_Returns(i, rest) ==
    /\ rest # <<>> =>
          /\ i[Len(i) - Len(rest)] = "\n"
          /\ headline_stars(rest).ok
          /\ next_level(rest) <= next_level(i)
    /\ rest = C21_Left(i)

\* C21: when headline_node succeeds on a headline of level L and leaves a
\* non-empty remaining input, that input starts at a line start with a valid
\* headline of level at most L, and it is the first such line after the
\* headline's own: every headline of greater level before it was absorbed.
\* This holds for the outermost call and for every call for a child.
C21_Extent ==
    /\ result.status = "Ok" => C21_Returns(input, result.rest)
    /\ \A k \in 1..Len(stack) :
          stack[k].pc = "return" => C21_Returns(stack[k].i_, stack[k].input)

C21_Witness ==
    /\ result.status = "Ok"
    /\ HasChild(result.out, "SECTION")
    /\ HasChild(result.out, "HEADLINE")
    /\ result.rest # <<>>
    /\ next_level(result.rest) = level(result.out)

----------------------------------------------------------------------------
(* C22 *)

\* headlines three levels deep, followed by a sibling of the first or not
DeepInputs ==
    {<<"*", "\n", "*", "*", "\n", "*", "*", "*">>,
     <<"*", "\n", "*", "*", "\n", "*", "*", "*", "\n", "*", "*">>,
     <<"*", " ", "a", "\n", "a", "\n", "*", "*", "\n", "*", "*", "*", " ", "b", "\n", "*">>}

InitNest == \E i \in NestInputs \cup CoreInputs \cup DeepInputs : Call(i)

\* a step is possible exactly while the outermost call is running (C22_Progress);
\* weak fairness of Next, with that written for ENABLED <<Next>>_vars: a
\* running parser takes its next step
Fairness == []<>(result.status # "running") \/ []<><<Next>>_vars

SpecTerminates == InitNest /\ [][Next]_vars /\ Fairness

\* the number of lines of i that begin with a valid headline
C22_HeadlineLines(i) ==
    Cardinality({k \in 0..(Len(i) - 1) :
                    /\ k = 0 \/ i[k] = "\n"
                    /\ headline_stars(SubSeq(i, k + 1, Len(i))).ok})

\* every call that is about to return, and the outermost one that has
\* returned, consumed at least one character
C22_Consumes ==
    /\ result.status = "Ok" => Len(result.rest) < Len(input)
    /\ \A k \in 1..Len(stack) :
          stack[k].pc = "return" => Len(stack[k].input) < Len(stack[k].i_)

\* the active calls: each one is made on what its caller had left, their
\* levels grow with the depth, and there are no more of them than headline
\* lines in an input that begins with a headline
C22_Depth ==
    /\ \A k \in 1..(Len(stack) - 1) :
          /\ stack[k].pc = "child"
          /\ stack[k + 1].i_ = stack[k].input
          /\ stack[k + 1].pc # "stars" => stack[k].level < stack[k + 1].level
    /\ headline_stars(input).ok => Len(stack) <= C22_HeadlineLines(input)

\* a running parser is at a place of headline_node_base from which it steps
C22_Progress ==
    result.status = "running" =>
        /\ stack # <<>>
        /\ Top.pc \in {"stars", "prefix", "title", "body", "loop", "return"}

\* the return of a child call leaves its caller a shorter remaining input
C22_Shrinks ==
    \A k \in 1..Len(stack) :
        (/\ stack[k].pc = "child"
         /\ k <= Len(stack')
         /\ stack'[k].pc = "loop") => Len(stack'[k].input) < Len(stack[k].input)

\* C22: headline_node terminates on every input: every successful call,
\* the calls for child headlines included, consumes at least one character,
\* the return of a child shortens what its caller has left, the depth of
\* the recursion is at most the number of headline lines with levels that
\* grow with the depth, and every run comes to an outcome.
C22_Terminates ==
    /\ [](C22_Consumes /\ C22_Depth /\ C22_Progress)
    /\ [][C22_Shrinks]_vars
    /\ <>(result.status # "running")

C22_Witness ==
    /\ result.status = "running"
    /\ Len(stack) = 3
    /\ stack[3].pc = "return"
    /\ stack[3].input # <<>>

----------------------------------------------------------------------------
(* C23 *)

\* the kinds of the children of a HEADLINE_TAGS node are well shaped
C23_Shape(ks) ==
    /\ ks[1] = "COLON"
    /\ ks[Len(ks)] = "COLON"
    /\ \A k \in 1..Len(ks) :
          /\ ks[k] \in {"COLON", "TEXT", "WHITESPACE"}
          /\ ks[k] \in {"TEXT", "WHITESPACE"} =>
                /\ 1 < k /\ k < Len(ks)
                /\ ks[k - 1] = "COLON"
                /\ ks[k + 1] = "COLON"
          /\ (ks[k] = "WHITESPACE" /\ k + 1 = Len(ks)) => FALSE
          /\ (ks[k] = "WHITESPACE" /\ k + 2 <= Len(ks)) => ks[k + 2] # "WHITESPACE"

\* C23: every HEADLINE_TAGS node made by headline_tags_node begins and ends
\* with a COLON token, has a COLON token right before and right after every
\* TEXT and WHITESPACE child, has no WHITESPACE child next to the final
\* COLON and no two WHITESPACE children with a single COLON between them,
\* and its text is the end of the line content that the title does not keep.
C23_TagsShape ==
    result.status = "Ok" =>
        /\ result.out.kind = "HEADLINE_TAGS"
        /\ C23_Shape(Kinds(result.out))
        /\ result.rest \o to_string(result.out) = input

C23_Witness ==
    /\ result.status = "Ok"
    /\ \E k \in 1..Len(result.out.children) : result.out.children[k].kind = "WHITESPACE"
    /\ \E k \in 1..Len(result.out.children) : result.out.children[k].kind = "TEXT"
    /\ result.rest # <<>>

----------------------------------------------------------------------------
(* C24 *)

\* what headline_node_base pushes after the first line, in the order in which
\* it pushes it
C24_Rank(kind) ==
    IF kind = "PLANNING" THEN 1
    ELSE IF kind = "PROPERTY_DRAWER" THEN 2
    ELSE IF kind = "SECTION" THEN 3
    ELSE IF kind = "HEADLINE" THEN 4
    ELSE 0

\* the kinds ks of the children of a HEADLINE: the nodes of the body come
\* after a NEW_LINE and in their order, each of the first three at most once
C24_Ordered(ks) ==
    \A k \in 1..Len(ks) :
        C24_Rank(ks[k]) > 0 =>
            /\ \E j \in 1..(k - 1) : ks[j] = "NEW_LINE"
            /\ \A j \in 1..(k - 1) :
                  C24_Rank(ks[j]) > 0 =>
                      \/ C24_Rank(ks[j]) < C24_Rank(ks[k])
                      \/ ks[j] = "HEADLINE" /\ ks[k] = "HEADLINE"

\* the kinds ks of a HEADLINE without a NEW_LINE, which left rest
C24_LeafOf(ks, rest) ==
    (\A k \in 1..Len(ks) : ks[k] # "NEW_LINE") =>
        /\ rest = <<>>
        /\ \A k \in 1..Len(ks) : C24_Rank(ks[k]) = 0

C24_Trees ==
    /\ \A h \in Headlines : C24_Ordered(Kinds(h))
    /\ \A k \in 1..Len(stack) :
          /\ C24_Ordered([j \in 1..Len(stack[k].children) |-> stack[k].children[j].kind])
          /\ stack[k].pc = "return" =>
                C24_LeafOf([j \in 1..Len(stack[k].children) |-> stack[k].children[j].kind],
                           stack[k].input)
    /\ result.status = "Ok" => C24_LeafOf(Kinds(result.out), result.rest)

\* the step over the first line that takes the early return
C24_EarlyReturn ==
    (/\ Running /\ Top.pc = "title"
     /\ Len(stack') = Len(stack)
     /\ stack'[Len(stack)].pc = "return")
        => /\ stack'[Len(stack)].input = <<>>
           /\ memchr("\n", Top.input) = -1
           /\ \A j \in 1..Len(stack'[Len(stack)].children) :
                 stack'[Len(stack)].children[j].kind # "NEW_LINE"

\* C24: whenever headline_node_base takes the early return because the line
\* terminator is empty, the remaining input is empty and the HEADLINE has no
\* NEW_LINE, PLANNING, PROPERTY_DRAWER, SECTION or child HEADLINE; PLANNING,
\* PROPERTY_DRAWER, SECTION and child HEADLINE nodes appear only after a
\* NEW_LINE child, and in that order.
C24_Leaf == []C24_Trees /\ [][C24_EarlyReturn]_vars

C24_Witness ==
    /\ result.status = "Ok"
    /\ HasChild(result.out, "NEW_LINE")
    /\ HasChild(result.out, "SECTION")
    /\ Kinds(result.out)[Len(result.out.children)] = "HEADLINE"
    /\ ~HasChild(result.out.children[Len(result.out.children)], "NEW_LINE")
====
